---- MODULE Spec2Model ----
(***************************************************************************)
(* Model of gocacheprog: the protocol engine (proc.Process.Run), the       *)
(* get/put coordinator (handleGet, handlePut) and the on-disk content      *)
(* store (savefile, writeAtomic), with the object-storage backend seen     *)
(* through its Get/Put calls.                                              *)
(***************************************************************************)
EXTENDS Integers, Sequences, FiniteSets, TLC

(* ------------------------------ bounds --------------------------------- *)
MaxRequests == 3        \* requests the reader decodes in one session
MaxInFlight == 2        \* dispatched tasks that have not finished yet
NumActions == 1         \* distinct actionIDs on the wire
NumObjects == 2         \* distinct objectIDs on the wire
MaxLen == 1             \* longest body, in bytes
MinUploadSize == 1      \* p.minUploadSize (flag min-upload-size), scaled
MaxClock == 2           \* last tick of the file system's time
MaxCalls == 3           \* calls of GCSCache.Put on one bucket

(* ------------------------------ values --------------------------------- *)
ActionIDs == { <<i>> : i \in 1..NumActions }
ObjectIDs == { <<i>> : i \in 1..NumObjects }

\* the bodies on the wire: an object's bytes repeat the byte of its objectID,
\* so that the bytes of two objects differ wherever both have one
BodyOf(o, n) == [k \in 1..n |-> o[1]]
Bodies == { BodyOf(o, n) : o \in ObjectIDs, n \in 0..MaxLen }
BadDigit == 16          \* a character outside 0-9a-f

\* fmt.Sprintf("%x", bytes): two hex digits per byte, high nibble first
HexEncode(bs) ==
  [k \in 1..(2 * Len(bs)) |->
     IF k % 2 = 1 THEN bs[(k + 1) \div 2] \div 16 ELSE bs[k \div 2] % 16]

\* hex.DecodeString: fails on odd length or on a non-hex character
HexValid(s) == Len(s) % 2 = 0 /\ \A k \in 1..Len(s) : s[k] \in 0..15
HexDecode(s) == [k \in 1..(Len(s) \div 2) |-> s[2 * k - 1] * 16 + s[2 * k]]

ActionNames == { HexEncode(a) : a \in ActionIDs }
ObjectNames == { HexEncode(o) : o \in ObjectIDs }
EmptyName == << >>
BadName == <<BadDigit, BadDigit>>

\* filepath.Join(dir, "o-" + objectID); the empty path is Response.DiskPath unset
NoPath == [k |-> "", id |-> EmptyName]
ObjectPath(name) == [k |-> "o", id |-> name]

CmdGet == "get"
CmdPut == "put"
CmdClose == "close"
CmdOther == "other"     \* any command string that is not get, put or close

ErrNone == ""
ErrUnknownCommand == "unknown command"
ErrRemote == "remote error"
ErrInvalidOutputID == "invalid OutputID"
ErrSave == "unable to save to file"
ErrNotRegular == "not a regular file"
ErrUpload == "upload failed"
ErrRead == "read failed"

\* a task response that lists the commands, as the handshake does
ResponseWithCaps(id) ==
  [ID |-> id, Err |-> ErrNone, KnownCommands |-> <<CmdGet, CmdPut, CmdClose>>,
   Miss |-> FALSE, OutputID |-> << >>, Size |-> 0, TimeNanos |-> 0,
   DiskPath |-> NoPath]

\* wire.Response as the task builds it
NewResponse(id) ==
  [ID |-> id, Err |-> ErrNone, KnownCommands |-> << >>, Miss |-> FALSE,
   OutputID |-> << >>, Size |-> 0, TimeNanos |-> 0, DiskPath |-> NoPath]
Handshake ==
  [ID |-> 0, Err |-> ErrNone, KnownCommands |-> <<CmdGet, CmdPut, CmdClose>>,
   Miss |-> FALSE, OutputID |-> << >>, Size |-> 0, TimeNanos |-> 0,
   DiskPath |-> NoPath]

\* files of the cache directory, with their modification time in ticks; the
\* time starts at FirstTick
FirstTick == 1
AbsentFile == [kind |-> "absent", data |-> << >>, mtime |-> 0]
RegularFile(d) == [kind |-> "regular", data |-> d, mtime |-> FirstTick]
DirFile == [kind |-> "dir", data |-> << >>, mtime |-> FirstTick]
\* a write to a file sets its modification time
Stamped(f, t) == [f EXCEPT !.mtime = t]

\* the objects of the bucket: the outputid and content-length-raw metadata,
\* the body, and how many times the object was written
NoObject == [exists |-> FALSE, outputID |-> EmptyName, size |-> 0, body |-> << >>, gen |-> 0]
StoredObject(o, n, b, g) == [exists |-> TRUE, outputID |-> o, size |-> n, body |-> b, gen |-> g]
\* form: what os.ReadFile and json.Unmarshal make of the file
AbsentIndex == [exists |-> FALSE, form |-> "none", o |-> EmptyName, n |-> 0]
IndexEntry(o, n) == [exists |-> TRUE, form |-> "json", o |-> o, n |-> n]
GarbageIndex == [exists |-> TRUE, form |-> "garbage", o |-> EmptyName, n |-> 0]
UnreadableIndex == [exists |-> TRUE, form |-> "unreadable", o |-> EmptyName, n |-> 0]

VARIABLES
  runState,   \* position of Run: start, serving, waitTasks, waitUploads, done, fatal
  reqs,       \* the requests decoded so far, in input order
  skipped,    \* indices of decoded requests that Run dropped without a task
  tasks,      \* one record per decoded request: the task's position and locals
  out,        \* the values written to the output stream, in order
  wmu,        \* holder of the writer lock (0: free)
  index,      \* a-<actionID> files of the cache directory
  payload,    \* o-<objectID> files of the cache directory
  uploads,    \* background upload of each request: none, scheduled, ok, failed
  counters,   \* hits_local, hits_remote, miss, puts
  clock,      \* the time of the file system, in ticks
  bucket,     \* the objects of the storage bucket, one per action key
  calls       \* the calls of GCSCache.Put, each with its position

vars == <<runState, reqs, skipped, tasks, out, wmu, index, payload,
          uploads, counters, clock, bucket, calls>>

Init ==
  /\ runState = "start"
  /\ reqs = << >>
  /\ skipped = {}
  /\ tasks = << >>
  /\ out = << >>
  /\ wmu = 0
  /\ index = [a \in ActionNames |-> AbsentIndex]
  /\ payload = [o \in ObjectNames |-> AbsentFile]
  /\ uploads = << >>
  /\ counters = [hits_local |-> 0, hits_remote |-> 0, miss |-> 0, puts |-> 0]
  /\ clock = FirstTick
  /\ bucket = [a \in ActionNames |-> NoObject]
  /\ calls = << >>

\* Run, lines 69-75: the handshake is encoded and flushed before the loop
SendHandshake ==
  /\ runState = "start"
  /\ out' = Append(out, Handshake)
  /\ runState' = "serving"
  /\ UNCHANGED <<clock, bucket, calls, reqs, skipped, tasks, wmu, index, payload, uploads, counters>>

(* --------------------------- the reader -------------------------------- *)
Unfinished == { i \in 1..Len(tasks) : tasks[i].pc \notin {"done", "skipped", "undispatched"} }
Uploading == { i \in 1..Len(uploads) : uploads[i] = "scheduled" }
InFlight == Cardinality(Unfinished) + Cardinality(Uploading)

\* Run, line 93: only get, put and close go on; anything else is dropped
Recognised(cmd) == cmd = CmdPut \/ cmd = CmdGet \/ cmd = CmdClose

\* a reader that takes a body of any length
FramingUnchecked(n, b) == TRUE

\* Run, line 103: the decoded body must have the declared length
FramingOK(n, b) == Len(b) = n

\* handleRequest, lines 130-145: where the task of a request starts
FirstPc(cmd) ==
  CASE cmd = CmdGet -> "statAction"
    [] cmd = CmdPut -> "saveStart"
    [] cmd = CmdClose -> "lock"
    [] OTHER -> "unknown"

Request(cmd, a, o, n, b) ==
  [ID |-> Len(reqs) + 1, Command |-> cmd, ActionID |-> a, ObjectID |-> o,
   BodySize |-> n, Body |-> b]

\* the goroutine of wg.Go (lines 110-126) with the locals of the handler it runs
NewTask(req, pc) ==
  [pc |-> pc,
   res |-> NewResponse(req.ID),
   sa |-> HexEncode(req.ActionID),     \* savefile: actionID
   so |-> HexEncode(req.ObjectID),     \* savefile: objectID
   ssize |-> req.BodySize,             \* savefile: size
   sbody |-> req.Body,                 \* savefile: what the body reader yields
   wrote |-> 0,                        \* bytes copied into the temporary file
   copyBuf |-> << >>,                  \* handlePut: what the tee has buffered
   tmtime |-> 0,                       \* modification time of the temporary file
   outputPath |-> NoPath,
   rget |-> "",                        \* what p.cache.Get answered
   \* for a get: the tasks that had finished when it was dispatched
   after |-> IF req.Command = CmdGet
             THEN { j \in 1..Len(tasks) : tasks[j].pc = "done" } ELSE {}]

\* an index entry that is used as soon as it parses
IndexTrustedUnchecked(ie) == ie.exists /\ ie.form = "json"

\* handleGet, lines 183-203: the index entry is used only if it could be read,
\* is JSON and its OutputID decodes as hex
IndexTrusted(ie) == ie.exists /\ ie.form = "json" /\ HexValid(ie.o)

\* handleGet, lines 183-203: the response when the index entry is not used;
\* only the error of os.ReadFile is returned
IndexRefused(res, ie) ==
  [res EXCEPT !.Miss = TRUE,
              !.Err = IF ie.form = "unreadable" THEN ErrRead ELSE ErrNone]

\* IDs are opaque keys, so a session is taken up to renaming: a request (or
\* a remote entry) names an ID the session has seen or the next new one
IdNum(bs) == IF Len(bs) = 0 THEN 0 ELSE bs[1]
Highest(S) == IF S = {} THEN 0 ELSE CHOOSE m \in S : \A x \in S : x <= m
SeenActions == Highest({ IdNum(reqs[i].ActionID) : i \in 1..Len(reqs) })
SeenObjects ==
  Highest({ IdNum(HexDecode(tasks[i].so)) : i \in 1..Len(tasks) }
          \cup { IdNum(HexDecode(o)) : o \in { x \in ObjectNames : payload[x] # AbsentFile } }
          \cup { IdNum(HexDecode(index[a].o)) :
                   a \in { x \in ActionNames : IndexTrusted(index[x]) } })
NextActions == { a \in ActionIDs : IdNum(a) <= SeenActions + 1 }
NextObjects == { o \in ObjectIDs : IdNum(o) <= SeenObjects + 1 }

\* Run, lines 86-91: Decode meets the end of the input or a value that is no
\* request; Run returns (nil or the error, which main drops) and its deferred
\* function starts waiting
ReaderStops ==
  /\ runState = "serving"
  /\ runState' = "waitTasks"
  /\ UNCHANGED <<clock, bucket, calls, reqs, skipped, tasks, out, wmu, index, payload, uploads, counters>>

\* Run, lines 93-95: a request with another command is passed over
DecodeOther ==
  /\ runState = "serving"
  /\ Len(reqs) < MaxRequests
  /\ LET req == Request(CmdOther, << >>, << >>, 0, << >>) IN
       /\ ~Recognised(req.Command)
       /\ reqs' = Append(reqs, req)
       /\ tasks' = Append(tasks, NewTask(req, "skipped"))
       /\ uploads' = Append(uploads, "none")
       /\ skipped' = skipped \cup {req.ID}
  /\ UNCHANGED <<clock, bucket, calls, runState, out, wmu, index, payload, counters>>

\* the value that follows a put with BodySize n > 0: n bytes, n - 1 bytes, or
\* a value that is not a byte array at all
NoFrame == <<0>>
Frames(o, n) == { BodyOf(o, n), BodyOf(o, n - 1), NoFrame }

\* Run, lines 97-105: the body of a put does not decode to BodySize bytes;
\* log.Fatal ends the process on the spot
DecodeBadBody ==
  /\ runState = "serving"
  /\ Len(reqs) < MaxRequests
  /\ \E a \in NextActions, o \in NextObjects, n \in 1..MaxLen :
     \E b \in Frames(o, n) :
       LET req == Request(CmdPut, a, o, n, b) IN
       /\ Recognised(req.Command)
       /\ b = NoFrame \/ ~FramingOK(n, b)
       /\ reqs' = Append(reqs, req)
       /\ tasks' = Append(tasks, NewTask(req, "undispatched"))
       /\ uploads' = Append(uploads, "none")
  /\ runState' = "fatal"
  /\ UNCHANGED <<clock, bucket, calls, skipped, out, wmu, index, payload, counters>>

\* Run, lines 85-126: a put is decoded, with its body when BodySize > 0, and
\* its task started
DecodePut ==
  /\ runState = "serving"
  /\ Len(reqs) < MaxRequests
  /\ InFlight < MaxInFlight
  /\ \E a \in NextActions, o \in NextObjects, n \in 0..MaxLen :
     \E b \in IF n > 0 THEN Frames(o, n) ELSE { << >> } :
       LET req == Request(CmdPut, a, o, n, b) IN
       /\ Recognised(req.Command)
       /\ n > 0 => (b # NoFrame /\ FramingOK(n, b))
       /\ reqs' = Append(reqs, req)
       /\ tasks' = Append(tasks, NewTask(req, FirstPc(req.Command)))
       /\ uploads' = Append(uploads, "none")
  /\ UNCHANGED <<clock, bucket, calls, runState, skipped, out, wmu, index, payload, counters>>

\* Run, lines 85-126: a get or a close is decoded and its task started
DecodeGetClose ==
  /\ runState = "serving"
  /\ Len(reqs) < MaxRequests
  /\ InFlight < MaxInFlight
  /\ \E req \in { Request(CmdGet, a, << >>, 0, << >>) : a \in NextActions }
                \cup { Request(CmdClose, << >>, << >>, 0, << >>) } :
       /\ Recognised(req.Command)
       /\ reqs' = Append(reqs, req)
       /\ tasks' = Append(tasks, NewTask(req, FirstPc(req.Command)))
       /\ uploads' = Append(uploads, "none")
  /\ UNCHANGED <<clock, bucket, calls, runState, skipped, out, wmu, index, payload, counters>>

(* ------------------------- the content store --------------------------- *)
Running == runState \in {"serving", "waitTasks"}
At(i, pc) == i \in 1..Len(tasks) /\ tasks[i].pc = pc /\ Running

\* writeTempFile: the bytes io.Copy has put into the temporary file so far
TempData(t) == SubSeq(t.sbody, 1, t.wrote)

\* a writer that creates and fills the destination itself
DestWrittenInPlace(old, tmp) == RegularFile(tmp)

\* writeTempFile, lines 63 and 74: os.CreateTemp and io.Copy work on the
\* temporary file, which then holds tmp; the destination keeps what it held
DestWhileCopying(old, tmp) == old

\* a writer that adds the new bytes to a destination that is already there
DestAppended(old, tmp) ==
  IF old.kind = "regular" THEN RegularFile(old.data \o tmp) ELSE RegularFile(tmp)

\* writeAtomic, line 91: os.Rename replaces the destination by the temporary file
DestAfterRename(old, tmp) == RegularFile(tmp)

\* savefile, line 31: O_CREATE|O_TRUNC leaves an empty regular file
DestAfterTruncate(old) == RegularFile(<< >>)

\* a save that leaves the index entry as it was
IndexLeftAsIs(old, o, n) == old

\* savefile, lines 46-58: the index entry that is renamed into place
IndexAfterSave(old, o, n) == IndexEntry(o, n)

\* a threshold that leaves out the size equal to it
UploadAboveOnly(size) == size > MinUploadSize

\* handlePut, line 257: the upload is scheduled from this size on
UploadEligible(size) == size >= MinUploadSize

\* handleRequest, lines 137-141: a get that ends with Miss set counts as a miss
CountMiss(res, c) ==
  IF res.Miss THEN [c EXCEPT !.miss = @ + 1] ELSE c

\* the context of the tasks (errgroup.WithContext) and what a remote get that
\* is under way answers once that context is cancelled
ErrCanceled == "context canceled"
CanceledRemoteGet(t) ==
  [t EXCEPT !.res.Miss = TRUE, !.res.Err = ErrCanceled, !.rget = "error", !.pc = "lock"]

\* a task that hands the error of its handler to the errgroup, which cancels
\* the context of all tasks
GetReturnsCancelling(i, t, res) ==
  /\ tasks' = [k \in 1..Len(tasks) |->
                IF k = i THEN [t EXCEPT !.res = res, !.pc = "lock"]
                ELSE IF res.Err # ErrNone /\ tasks[k].pc = "remoteGet"
                     THEN CanceledRemoteGet(tasks[k]) ELSE tasks[k]]
  /\ counters' = CountMiss(res, counters)

\* handleGet returns: the error, if any, goes into the response of the task
\* (Run, lines 114-117), the task returns nil to the errgroup (line 125)
GetReturns(i, t, res) ==
  /\ tasks' = [tasks EXCEPT ![i] = [t EXCEPT !.res = res, !.pc = "lock"]]
  /\ counters' = CountMiss(res, counters)

\* savefile returned an error: handlePut line 251, handleGet lines 177-180
SaveFailed(i, t) ==
  /\ IF reqs[i].Command = CmdPut
     THEN /\ tasks' = [tasks EXCEPT ![i] = [t EXCEPT !.res.Err = ErrSave, !.pc = "lock"]]
          /\ counters' = counters
     ELSE GetReturns(i, t, [t.res EXCEPT !.Miss = TRUE, !.Err = ErrSave])
  /\ uploads' = uploads

\* savefile returned the path: handlePut lines 253-272, handleGet line 181
SaveDone(i, t) ==
  IF reqs[i].Command = CmdPut
  THEN /\ tasks' = [tasks EXCEPT ![i] =
                      [t EXCEPT !.res.DiskPath = ObjectPath(t.so),
                                !.res.Size = reqs[i].BodySize,
                                !.pc = "lock"]]
       /\ uploads' = [uploads EXCEPT ![i] =
                        IF UploadEligible(reqs[i].BodySize) THEN "scheduled" ELSE "none"]
       /\ counters' = counters
  ELSE /\ tasks' = [tasks EXCEPT ![i] =
                      [t EXCEPT !.outputPath = ObjectPath(t.so), !.pc = "statOutput"]]
       /\ counters' = [counters EXCEPT !.hits_remote = @ + 1]
       /\ uploads' = uploads

\* os.OpenFile with O_RDWR and os.Rename of a file both fail on a name that
\* is a directory
DestIsDir(old) == old.kind = "dir"

\* savefile, lines 28-37 and writeTempFile line 63: the empty payload is
\* created in place; any other payload starts as an empty temporary file
SaveStart(i) ==
  /\ At(i, "saveStart")
  /\ LET t == tasks[i] IN
     IF t.ssize = 0 /\ DestIsDir(payload[t.so])
     THEN SaveFailed(i, t) /\ payload' = payload
     ELSE /\ IF t.ssize = 0
             THEN /\ payload' = [payload EXCEPT ![t.so] = Stamped(DestAfterTruncate(@), clock)]
                  /\ tasks' = [tasks EXCEPT ![i].pc = "indexRename"]
             ELSE /\ payload' = [payload EXCEPT ![t.so] = DestWhileCopying(@, << >>)]
                  /\ tasks' = [tasks EXCEPT ![i].wrote = 0,
                                            ![i].tmtime = clock,
                                            ![i].pc = IF Len(t.sbody) = 0 THEN "rename" ELSE "copy"]
          /\ UNCHANGED <<uploads, counters>>
  /\ UNCHANGED <<clock, bucket, calls, runState, reqs, skipped, out, wmu, index>>

\* a tee that buffers nothing
TeeDropped(buf, chunk) == buf

\* handlePut, line 246: io.TeeReader writes to copyBuf what is read from the
\* body of the request
TeeBuffer(buf, chunk) == buf \o chunk

\* writeTempFile, line 74: io.Copy moves the next piece of the body; the body
\* of a put is read through the tee
CopyChunk(i) ==
  /\ At(i, "copy")
  /\ LET t == tasks[i]
         t2 == [t EXCEPT !.wrote = @ + 1,
                         !.tmtime = clock,
                         !.copyBuf = IF reqs[i].Command = CmdPut
                                     THEN TeeBuffer(@, <<t.sbody[t.wrote + 1]>>) ELSE @,
                         !.pc = IF t.wrote + 1 = Len(t.sbody) THEN "rename" ELSE "copy"] IN
     /\ tasks' = [tasks EXCEPT ![i] = t2]
     /\ payload' = [payload EXCEPT ![t.so] = DestWhileCopying(@, TempData(t2))]
  /\ UNCHANGED <<clock, bucket, calls, runState, reqs, skipped, out, wmu, index, uploads, counters>>

\* writeTempFile, lines 74-77: the reader of a remote object fails; the
\* temporary file is removed and savefile returns the error
CopyFails(i) ==
  /\ At(i, "copy")
  /\ reqs[i].Command = CmdGet
  /\ SaveFailed(i, [tasks[i] EXCEPT !.rget = "readfail"])
  /\ UNCHANGED <<clock, bucket, calls, runState, reqs, skipped, out, wmu, index, payload>>

\* writeAtomic, line 91, then savefile lines 41-43: the payload is renamed
\* into place and only then is the number of bytes compared with size
RenamePayload(i) ==
  /\ At(i, "rename")
  /\ LET t == tasks[i] IN
     IF DestIsDir(payload[t.so])
     THEN SaveFailed(i, t) /\ payload' = payload
     ELSE /\ payload' = [payload EXCEPT ![t.so] =
                              Stamped(DestAfterRename(@, TempData(t)), t.tmtime)]
          /\ IF t.wrote # t.ssize
             THEN SaveFailed(i, t)
             ELSE /\ tasks' = [tasks EXCEPT ![i].pc = "indexRename"]
                  /\ UNCHANGED <<uploads, counters>>
  /\ UNCHANGED <<clock, bucket, calls, runState, reqs, skipped, out, wmu, index>>

\* savefile, lines 46-58: the index entry is marshalled, written to its own
\* temporary file and renamed into place; savefile returns the payload path
RenameIndex(i) ==
  /\ At(i, "indexRename")
  /\ LET t == tasks[i] IN
     /\ index' = [index EXCEPT ![t.sa] = IndexAfterSave(@, t.so, t.ssize)]
     /\ SaveDone(i, t)
  /\ UNCHANGED <<clock, bucket, calls, runState, reqs, skipped, out, wmu, payload>>

(* ----------------------------- handleGet ------------------------------- *)
\* what the object-storage Get can answer for a stored entry: an outputID
\* (possibly not hex), the recorded size, and the bytes its reader delivers
\* (all of them, or one fewer)
RemoteEntries ==
  { [outputID |-> BadName, size |-> 0, data |-> << >>] } \cup
  { [outputID |-> HexEncode(o), size |-> n, data |-> BodyOf(o, n - short)] :
      o \in ObjectIDs, n \in 0..MaxLen, short \in 0..1 }

\* an empty outputID that is not turned into a miss
RemoteAbsentUnmarked(res) == res

\* handleGet, lines 162-166: an empty outputID from the remote store is a miss
RemoteAbsent(res) == [res EXCEPT !.Miss = TRUE]

\* handleGet, lines 155-158: an error from the remote store
RemoteFailed(res) == [res EXCEPT !.Miss = TRUE, !.Err = ErrRemote]

\* handleGet, lines 152-153: os.Stat on the index entry picks the branch
StatAction(i) ==
  /\ At(i, "statAction")
  /\ tasks' = [tasks EXCEPT ![i].pc =
                 IF index[tasks[i].sa].exists THEN "readAction" ELSE "remoteGet"]
  /\ UNCHANGED <<clock, bucket, calls, runState, reqs, skipped, out, wmu, index, payload, uploads, counters>>

\* handleGet, lines 154-166 with GCSCache.Get lines 211-213 and 224-232: no
\* object for the action, or one without the outputid or size metadata; both
\* come back as an empty outputID and no error
RemoteGetAbsent(i) ==
  /\ At(i, "remoteGet")
  /\ LET t == [tasks[i] EXCEPT !.rget = "absent"] IN
     GetReturns(i, t, RemoteAbsent(t.res))
  /\ UNCHANGED <<clock, bucket, calls, runState, reqs, skipped, out, wmu, index, payload, uploads>>

\* handleGet, lines 154-158 with GCSCache.Get: the call fails
RemoteGetError(i) ==
  /\ At(i, "remoteGet")
  /\ LET t == [tasks[i] EXCEPT !.rget = "error"] IN
     GetReturns(i, t, RemoteFailed(t.res))
  /\ UNCHANGED <<clock, bucket, calls, runState, reqs, skipped, out, wmu, index, payload, uploads>>

\* handleGet, lines 154-176: the remote store has an entry; its outputID is
\* decoded and savefile is entered with the remote size and reader
RemoteGetHit(i) ==
  /\ At(i, "remoteGet")
  /\ \E e \in RemoteEntries :
       /\ HexValid(e.outputID) => HexDecode(e.outputID) \in NextObjects
       /\ LET t == [tasks[i] EXCEPT
                      !.rget = IF HexValid(e.outputID) /\ Len(e.data) = e.size
                               THEN "valid" ELSE "invalid"] IN
          IF ~HexValid(e.outputID)
          THEN GetReturns(i, t, [t.res EXCEPT !.Miss = TRUE, !.Err = ErrInvalidOutputID])
          ELSE /\ tasks' = [tasks EXCEPT ![i] =
                              [t EXCEPT !.res.OutputID = HexDecode(e.outputID),
                                        !.so = e.outputID,
                                        !.ssize = e.size,
                                        !.sbody = e.data,
                                        !.pc = "saveStart"]]
               /\ counters' = counters
  /\ UNCHANGED <<clock, bucket, calls, runState, reqs, skipped, out, wmu, index, payload, uploads>>

\* a stat that serves whatever is under the payload path
StatResponseServing(res, f, path) ==
  [res EXCEPT !.Size = Len(f.data), !.DiskPath = path]

\* a stat that reports the size an index entry records for the payload
StatResponseRecorded(res, f, path) ==
  LET named == { a \in ActionNames : index[a].exists /\ index[a].o = path.id }
      size == IF named = {} THEN Len(f.data) ELSE index[CHOOSE a \in named : TRUE].n IN
  CASE f.kind = "absent" -> [res EXCEPT !.Miss = TRUE]
    [] f.kind = "regular" -> [res EXCEPT !.Size = size, !.TimeNanos = f.mtime,
                                         !.DiskPath = path]
    [] OTHER -> [res EXCEPT !.Miss = TRUE, !.Err = ErrNotRegular]

\* handleGet, lines 209-227: the response after os.Stat on the payload path
StatResponse(res, f, path) ==
  CASE f.kind = "absent" -> [res EXCEPT !.Miss = TRUE]
    [] f.kind = "regular" -> [res EXCEPT !.Size = Len(f.data), !.TimeNanos = f.mtime,
                                         !.DiskPath = path]
    [] OTHER -> [res EXCEPT !.Miss = TRUE, !.Err = ErrNotRegular]

\* handleGet, lines 183-206: the index entry is read and checked
ReadAction(i) ==
  /\ At(i, "readAction")
  /\ LET t == tasks[i]
         ie == index[t.sa] IN
     IF ~IndexTrusted(ie)
     THEN GetReturns(i, t, IndexRefused(t.res, ie))
     ELSE /\ tasks' = [tasks EXCEPT ![i] =
                         [t EXCEPT !.outputPath = ObjectPath(ie.o), !.pc = "statOutput"]]
          /\ counters' = [counters EXCEPT !.hits_local = @ + 1]
  /\ UNCHANGED <<clock, bucket, calls, runState, reqs, skipped, out, wmu, index, payload, uploads>>

\* handleGet, lines 209-227: the payload is stat-ed and the response filled in
StatOutput(i) ==
  /\ At(i, "statOutput")
  /\ LET t == tasks[i] IN
     GetReturns(i, t, StatResponse(t.res, payload[t.outputPath.id], t.outputPath))
  /\ UNCHANGED <<clock, bucket, calls, runState, reqs, skipped, out, wmu, index, payload, uploads>>

(* ------------------------ responses and uploads ------------------------ *)
\* a lock that lets everyone in
MutexIgnored == TRUE

\* sync.Mutex: Lock returns only when nobody holds the mutex
MutexFree == wmu = 0

\* Run, line 119: the task takes the writer lock
Lock(i) ==
  /\ At(i, "lock")
  /\ MutexFree
  /\ wmu' = i
  /\ tasks' = [tasks EXCEPT ![i].pc = "write"]
  /\ UNCHANGED <<clock, bucket, calls, runState, reqs, skipped, out, index, payload, uploads, counters>>

\* Run, lines 120-125: the response is encoded and flushed, the lock released
WriteResponse(i) ==
  /\ At(i, "write")
  /\ wmu = i
  /\ out' = Append(out, tasks[i].res)
  /\ wmu' = 0
  /\ tasks' = [tasks EXCEPT ![i].pc = "done"]
  /\ UNCHANGED <<clock, bucket, calls, runState, reqs, skipped, index, payload, uploads, counters>>

UploadRunning == runState \in {"serving", "waitTasks", "waitUploads"}

\* handlePut, line 262, and GCSCache.Put, lines 246-248: the body the upload
\* hands to the remote store is copyBuf, or an empty reader when size is 0
UploadBody(i) == IF reqs[i].BodySize = 0 THEN << >> ELSE tasks[i].copyBuf

\* Run, lines 77-79: the context of the tasks comes from errgroup.WithContext;
\* it is cancelled when wg.Wait returns, that is before p.gwg.Wait
CtxDone == runState \in {"waitUploads", "done"}

\* an upload that runs under the context of the task that scheduled it
UploadCtxFromTask == CtxDone

\* handlePut, line 231: the upload runs under context.Background(), which is
\* never cancelled
UploadCtxDone == FALSE

\* GCSCache.Put, lines 250-254: under a live context Attrs finds the object
\* already there; nothing is written and the upload ends without an error
UploadExists(i) ==
  /\ UploadRunning
  /\ i \in 1..Len(uploads) /\ uploads[i] = "scheduled"
  /\ ~UploadCtxDone
  /\ uploads' = [uploads EXCEPT ![i] = "ok"]
  /\ UNCHANGED <<clock, bucket, calls, runState, reqs, skipped, tasks, out, wmu, index, payload, counters>>

\* a handlePut that hands the error of the upload to its caller
PutErrFromUpload(retErr, uploadErr) ==
  IF uploadErr # ErrNone THEN uploadErr ELSE retErr

\* handlePut, lines 260-272: the error of p.cache.Put stays in the upload
\* goroutine, where it is counted; handlePut has returned nil by then
PutErrAfterUpload(retErr, uploadErr) == retErr

\* GCSCache.Put, lines 256-275 and handlePut lines 261-265: no object yet;
\* the body is written, with or without an error (always with one under a
\* cancelled context); an error is counted in puts
UploadWrite(i) ==
  /\ UploadRunning
  /\ i \in 1..Len(uploads) /\ uploads[i] = "scheduled"
  /\ \E ok \in BOOLEAN :
       /\ UploadCtxDone => ~ok
       /\ uploads' = [uploads EXCEPT ![i] = IF ok THEN "ok" ELSE "failed"]
       /\ counters' = IF ok THEN counters ELSE [counters EXCEPT !.puts = @ + 1]
       /\ tasks' = [tasks EXCEPT ![i].res.Err =
                      PutErrAfterUpload(@, IF ok THEN ErrNone ELSE ErrUpload)]
  /\ UNCHANGED <<clock, bucket, calls, runState, reqs, skipped, out, wmu, index, payload>>

(* ------------------------------ shutdown ------------------------------- *)
\* a shutdown that does not wait for the tasks
TasksNotAwaited == TRUE

\* Run, line 79: wg.Wait returns when every dispatched task has returned
TasksDrained == Unfinished = {}

\* a shutdown that does not wait for the uploads
UploadsNotAwaited == TRUE

\* Run, line 80: p.gwg.Wait returns when every scheduled upload is done
UploadsDrained == Uploading = {}

WaitTasks ==
  /\ runState = "waitTasks"
  /\ TasksDrained
  /\ runState' = "waitUploads"
  /\ UNCHANGED <<clock, bucket, calls, reqs, skipped, tasks, out, wmu, index, payload, uploads, counters>>

\* Run, lines 80-81: the uploads are awaited and the counters logged
WaitUploads ==
  /\ runState = "waitUploads"
  /\ UploadsDrained
  /\ runState' = "done"
  /\ UNCHANGED <<clock, bucket, calls, reqs, skipped, tasks, out, wmu, index, payload, uploads, counters>>

Next ==
  \/ SendHandshake
  \/ ReaderStops
  \/ DecodeOther
  \/ DecodeBadBody
  \/ DecodePut
  \/ DecodeGetClose
  \/ \E i \in 1..MaxRequests :
       \/ SaveStart(i)
       \/ CopyChunk(i)
       \/ CopyFails(i)
       \/ RenamePayload(i)
       \/ RenameIndex(i)
       \/ StatAction(i)
       \/ RemoteGetAbsent(i)
       \/ RemoteGetError(i)
       \/ RemoteGetHit(i)
       \/ ReadAction(i)
       \/ StatOutput(i)
       \/ Lock(i)
       \/ WriteResponse(i)
       \/ UploadExists(i)
       \/ UploadWrite(i)
  \/ WaitTasks
  \/ WaitUploads

Spec == Init /\ [][Next]_vars

\* the Go scheduler runs every goroutine that can run: the tasks, the uploads
\* and Run's own waits go on; the input is the caller's and may stay silent
Progress ==
  \/ SendHandshake
  \/ \E i \in 1..MaxRequests :
       \/ SaveStart(i) \/ CopyChunk(i) \/ RenamePayload(i) \/ RenameIndex(i)
       \/ StatAction(i) \/ RemoteGetAbsent(i) \/ RemoteGetError(i) \/ RemoteGetHit(i)
       \/ ReadAction(i) \/ StatOutput(i) \/ Lock(i) \/ WriteResponse(i)
       \/ UploadExists(i) \/ UploadWrite(i)
  \/ WaitTasks
  \/ WaitUploads

FairSpec == Spec /\ WF_vars(Progress)

\* cache directories as an earlier session or another program can leave them:
\* an index entry whose payload is gone or is a directory, a directory under
\* a payload name without any index entry, and an index entry that names no
\* hex OutputID, is not JSON or cannot be read
StoreStates ==
  LET a1 == HexEncode(<<1>>)
      o1 == HexEncode(<<1>>)
      Entry(e) == [a \in ActionNames |-> IF a = a1 THEN e ELSE AbsentIndex]
      File(f) == [o \in ObjectNames |-> IF o = o1 THEN f ELSE AbsentFile] IN
    { [index |-> Entry(IndexEntry(o1, MaxLen)), payload |-> File(AbsentFile)],
      [index |-> Entry(IndexEntry(o1, MaxLen)), payload |-> File(DirFile)],
      [index |-> Entry(AbsentIndex), payload |-> File(DirFile)],
      [index |-> Entry(IndexEntry(BadName, MaxLen)), payload |-> File(AbsentFile)],
      [index |-> Entry(GarbageIndex), payload |-> File(AbsentFile)],
      [index |-> Entry(UnreadableIndex), payload |-> File(AbsentFile)] }

StoreInit ==
  /\ runState = "start"
  /\ reqs = << >>
  /\ skipped = {}
  /\ tasks = << >>
  /\ out = << >>
  /\ wmu = 0
  /\ \E st \in StoreStates : index = st.index /\ payload = st.payload
  /\ uploads = << >>
  /\ counters = [hits_local |-> 0, hits_remote |-> 0, miss |-> 0, puts |-> 0]
  /\ clock = FirstTick
  /\ bucket = [a \in ActionNames |-> NoObject]
  /\ calls = << >>

StoreSpec == StoreInit /\ [][Next]_vars

\* the time of the file system moves on; its grain is coarse, a tick falls
\* between the handling of two requests
Tick ==
  /\ clock < MaxClock
  /\ Unfinished = {}
  /\ clock' = clock + 1
  /\ UNCHANGED <<runState, reqs, skipped, tasks, out, wmu, index, payload,
                 uploads, counters, bucket, calls>>

TimeNext == Next \/ Tick
TimeSpec == Init /\ [][TimeNext]_vars

(* ----------------------- the object-storage backend -------------------- *)
\* gcs.go holds two Put methods: the one of lines 95-145 closes the writer of
\* the object and remembers the actions it has seen stored, the one of lines
\* 242-276 does neither
Revisions == {"closing", "unclosed"}

\* GCSCache.Put is entered with an action, an object, its size and its body
PutCall ==
  /\ Len(calls) < MaxCalls
  /\ \E r \in Revisions, a \in ActionIDs, o \in ObjectIDs, n \in 0..MaxLen :
       calls' = Append(calls, [rev |-> r,
                               actionID |-> HexEncode(a), outputID |-> HexEncode(o),
                               size |-> n, body |-> BodyOf(o, n),
                               pc |-> "attrs", err |-> ErrNone,
                               cached |-> FALSE])
  /\ UNCHANGED <<runState, reqs, skipped, tasks, out, wmu, index, payload,
                 uploads, counters, clock, bucket>>

\* s.actioncache, lines 103-108 and 113-115: the actions a closing Put has
\* seen stored
ActionCache == { calls[c].actionID : c \in { d \in 1..Len(calls) : calls[d].cached } }

\* what object.Attrs can answer: no error only when the object exists, an
\* error whether it exists or not
AttrsFinds(a) == IF bucket[a].exists THEN {TRUE, FALSE} ELSE {FALSE}

\* GCSCache.Put, lines 103-117 and 250-254: an action in the cache, or an
\* Attrs without an error, ends Put with nil; any error of Attrs sends Put on
\* to write
PutAttrs(c) ==
  /\ c \in 1..Len(calls) /\ calls[c].pc = "attrs"
  /\ IF calls[c].rev = "closing" /\ calls[c].actionID \in ActionCache
       THEN calls' = [calls EXCEPT ![c].pc = "returned"]
       ELSE \E found \in AttrsFinds(calls[c].actionID) :
              calls' = [calls EXCEPT ![c].pc = IF found THEN "returned" ELSE "write",
                                     ![c].cached = found /\ calls[c].rev = "closing"]
  /\ UNCHANGED <<runState, reqs, skipped, tasks, out, wmu, index, payload,
                 uploads, counters, clock, bucket>>

\* GCSCache.Put, lines 119-142: wc.Close() finalises the object, with the
\* outputid and size metadata and the body, over whatever the bucket had
ObjectAfterClose(old, call) ==
  StoredObject(call.outputID, call.size, call.body, old.gen + 1)

\* GCSCache.Put, lines 256-275: the s2 writer is closed (line 270), the writer
\* of the object never is, so no object is finalised and the bucket keeps what
\* it had
ObjectAfterWrite(old, call) == old

\* GCSCache.Put, lines 119-144 and 256-275: the write, with or without an error
PutWrite(c) ==
  /\ c \in 1..Len(calls) /\ calls[c].pc = "write"
  /\ \E ok \in BOOLEAN :
       /\ calls' = [calls EXCEPT ![c].pc = "returned",
                                 ![c].err = IF ok THEN ErrNone ELSE ErrUpload]
       /\ bucket' = [bucket EXCEPT ![calls[c].actionID] =
                       IF ~ok THEN @
                       ELSE IF calls[c].rev = "closing"
                              THEN ObjectAfterClose(@, calls[c])
                              ELSE ObjectAfterWrite(@, calls[c])]
  /\ UNCHANGED <<runState, reqs, skipped, tasks, out, wmu, index, payload,
                 uploads, counters, clock>>

BucketNext ==
  \/ PutCall
  \/ \E c \in 1..MaxCalls : PutAttrs(c) \/ PutWrite(c)

BucketSpec == Init /\ [][BucketNext]_vars

(* ------------------------------ properties ----------------------------- *)
Decoded == 1..Len(reqs)
IsCmd(i, cmd) == i \in Decoded /\ reqs[i].Command = cmd
Dispatched(i) == i \in Decoded /\ tasks[i].pc \notin {"skipped", "undispatched"}
Returned(i) == Dispatched(i) /\ tasks[i].pc \in {"lock", "write", "done"}
Finished(i) == Dispatched(i) /\ tasks[i].pc = "done"
Responses(i) == { k \in 1..Len(out) : out[k].ID = i /\ out[k].KnownCommands = << >> }
Answered(i) == Cardinality(Responses(i)) = 1
IsHit(res) == ~res.Miss /\ res.Err = ErrNone /\ res.DiskPath # NoPath

\* the tasks that went into savefile: every dispatched put, and every get that
\* took an entry from the remote store
Saves(k) ==
  \/ IsCmd(k, CmdPut) /\ Dispatched(k)
  \/ IsCmd(k, CmdGet) /\ tasks[k].rget \in {"valid", "invalid", "readfail"}

\* put j is the only thing the session wrote under its actionID and objectID:
\* every other save under either of them saved the same object and bytes
SameSave(j, k) ==
  /\ tasks[k].so = HexEncode(reqs[j].ObjectID)
  /\ tasks[k].sbody = reqs[j].Body
  /\ tasks[k].ssize = reqs[j].BodySize
Undisturbed(j) ==
  \A k \in Decoded :
    (Saves(k) /\ (tasks[k].sa = HexEncode(reqs[j].ActionID)
                  \/ tasks[k].so = HexEncode(reqs[j].ObjectID)))
      => SameSave(j, k)

\* get i was dispatched after put j for the same action had finished without error
Follows(i, j) ==
  /\ IsCmd(i, CmdGet) /\ IsCmd(j, CmdPut)
  /\ reqs[i].ActionID = reqs[j].ActionID
  /\ j \in tasks[i].after
  /\ tasks[j].res.Err = ErrNone

\* C1: round trip. A get that follows a successful put of (actionID, objectID,
\* size, body), with nothing else written under those IDs, is a hit whose
\* outputID is objectID, whose size is size, and whose path names a payload
\* file holding exactly body.
C1_RoundTrip ==
  \A i \in Decoded, j \in Decoded :
    (Follows(i, j) /\ Finished(i) /\ Undisturbed(j)) =>
      /\ IsHit(tasks[i].res)
      /\ tasks[i].res.OutputID = reqs[j].ObjectID
      /\ tasks[i].res.Size = reqs[j].BodySize
      /\ tasks[i].res.DiskPath = ObjectPath(HexEncode(reqs[j].ObjectID))
      /\ payload[tasks[i].res.DiskPath.id] = RegularFile(reqs[j].Body)

\* the puts of the session name pairwise distinct objectIDs and nothing was
\* promoted from the remote store
PutsOf(o) == { j \in Decoded : IsCmd(j, CmdPut) /\ Dispatched(j) /\ HexEncode(reqs[j].ObjectID) = o }
DistinctPuts ==
  /\ \A o \in ObjectNames : Cardinality(PutsOf(o)) <= 1
  /\ \A k \in Decoded : IsCmd(k, CmdGet) => ~Saves(k)

\* C2: atomicity under concurrency. While puts for distinct objectIDs run in
\* parallel with gets, every payload file that exists under its final name
\* holds the whole body of its put, and every get that returns a hit reports
\* the path and the full size of such a file.
C2_Atomicity ==
  DistinctPuts =>
    /\ \A o \in ObjectNames :
         payload[o].kind # "absent" =>
           \E j \in PutsOf(o) : payload[o] = RegularFile(reqs[j].Body)
    /\ \A i \in Decoded :
         (IsCmd(i, CmdGet) /\ Returned(i) /\ IsHit(tasks[i].res)) =>
           \E j \in PutsOf(tasks[i].res.DiskPath.id) :
             tasks[i].res.Size = Len(reqs[j].Body)

\* two puts of non-empty bodies for distinct objects are both in place, and a
\* get that was dispatched while one of them was still running returned a hit
C2_Witness ==
  /\ DistinctPuts
  /\ \E j1 \in Decoded, j2 \in Decoded, i \in Decoded :
       /\ j1 # j2 /\ IsCmd(j1, CmdPut) /\ IsCmd(j2, CmdPut)
       /\ reqs[j1].BodySize > 0 /\ reqs[j2].BodySize > 0
       /\ Finished(j1) /\ Finished(j2)
       /\ IsCmd(i, CmdGet) /\ Finished(i) /\ IsHit(tasks[i].res)
       /\ j2 \notin tasks[i].after

\* C3: miss correctness. A get for an action that nothing in the session wrote
\* locally, and for which the remote store answered that it has no entry, has
\* miss set, no disk path and no outputID, and so has the response written.
C3_MissCorrectness ==
  \A i \in Decoded :
    (/\ IsCmd(i, CmdGet) /\ Returned(i)
     /\ tasks[i].rget = "absent"
     /\ \A k \in Decoded : Saves(k) => tasks[k].sa # tasks[i].sa) =>
      /\ tasks[i].res.Miss
      /\ tasks[i].res.DiskPath = NoPath
      /\ tasks[i].res.OutputID = << >>
      /\ \A k \in Responses(i) : out[k] = tasks[i].res

C3_Witness ==
  \E i \in Decoded :
    /\ IsCmd(i, CmdGet) /\ Finished(i) /\ Answered(i)
    /\ tasks[i].rget = "absent"
    /\ \A k \in Decoded : Saves(k) => tasks[k].sa # tasks[i].sa
    /\ \E k \in Responses(i) : out[k].Miss /\ out[k].Err = ErrNone

\* C4: promotion. A get that found no local entry and took a valid entry from
\* the remote store returns a hit and leaves the index entry in the local
\* store; every get for the same action dispatched after it is a hit that
\* never asks the remote store.
C4_Promotion ==
  \A i \in Decoded :
    (IsCmd(i, CmdGet) /\ Returned(i) /\ tasks[i].rget = "valid") =>
      /\ IsHit(tasks[i].res)
      /\ index[tasks[i].sa].exists
      /\ \A k \in Decoded :
           (/\ IsCmd(k, CmdGet) /\ Returned(k)
            /\ reqs[k].ActionID = reqs[i].ActionID
            /\ i \in tasks[k].after) =>
             IsHit(tasks[k].res) /\ tasks[k].rget = ""

C4_Witness ==
  \E i \in Decoded, k \in Decoded :
    /\ IsCmd(i, CmdGet) /\ Finished(i) /\ tasks[i].rget = "valid"
    /\ IsCmd(k, CmdGet) /\ Finished(k) /\ i \in tasks[k].after
    /\ reqs[k].ActionID = reqs[i].ActionID
    /\ IsHit(tasks[k].res) /\ tasks[k].rget = ""

\* C5: threshold policy. A put below minUploadSize never has an upload; a put
\* that was saved locally with a size at or above minUploadSize has its one
\* upload scheduled by the time handlePut returns.
C5_Threshold ==
  \A i \in Decoded :
    IsCmd(i, CmdPut) =>
      /\ reqs[i].BodySize < MinUploadSize => uploads[i] = "none"
      /\ (Returned(i) /\ tasks[i].res.Err = ErrNone /\ reqs[i].BodySize >= MinUploadSize)
           => uploads[i] \in {"scheduled", "ok", "failed"}

C5_Witness ==
  \E i \in Decoded, j \in Decoded :
    /\ IsCmd(i, CmdPut) /\ Finished(i) /\ reqs[i].BodySize = MinUploadSize
    /\ uploads[i] \in {"ok", "failed"}
    /\ IsCmd(j, CmdPut) /\ Finished(j) /\ reqs[j].BodySize < MinUploadSize
    /\ uploads[j] = "none"

\* what handleGet answers request id from a store that holds one put of req
\* and nothing else
GetAfterSinglePut(id, req) ==
  StatResponse(NewResponse(id), RegularFile(req.Body),
               ObjectPath(HexEncode(req.ObjectID)))

\* the puts of action a that had finished when get i was dispatched
PutsBefore(i) ==
  { j \in tasks[i].after : IsCmd(j, CmdPut) /\ reqs[j].ActionID = reqs[i].ActionID }

\* C6: idempotence. After the same put has run any number of times, and all
\* runs have finished, a get answers what it answers after a single run: the
\* same miss flag, outputID, size and path, and the payload holds the body.
C6_Idempotence ==
  \A i \in Decoded, j \in Decoded :
    (/\ IsCmd(i, CmdGet) /\ Finished(i)
     /\ j \in PutsBefore(i) /\ tasks[j].res.Err = ErrNone
     /\ Undisturbed(j)
     /\ \A k \in Decoded : Saves(k) => k \in tasks[i].after) =>
      /\ tasks[i].res = GetAfterSinglePut(i, reqs[j])
      /\ payload[tasks[i].res.DiskPath.id] = RegularFile(reqs[j].Body)

C6_Witness ==
  \E i \in Decoded, j1 \in Decoded, j2 \in Decoded :
    /\ IsCmd(i, CmdGet) /\ Finished(i)
    /\ j1 # j2 /\ j1 \in PutsBefore(i) /\ j2 \in PutsBefore(i)
    /\ Undisturbed(j1) /\ reqs[j1].BodySize > 0
    /\ IsHit(tasks[i].res)

\* C7: every dispatched get or put gets exactly one response with its ID:
\* never two, all of them written when Run has finished waiting for the
\* tasks, and under fair scheduling there comes a point from which every
\* dispatched get and put has its response, unless a framing failure has
\* ended the session.
GetOrPut(i) == Dispatched(i) /\ reqs[i].Command \in {CmdGet, CmdPut}
C7_EveryRequestAnswered ==
  /\ [](\A i \in Decoded : Cardinality(Responses(i)) <= 1)
  /\ [](runState \in {"waitUploads", "done"} => \A i \in Decoded : GetOrPut(i) => Answered(i))
  /\ <>[](runState = "fatal" \/ \A i \in Decoded : GetOrPut(i) => Answered(i))

\* two requests answered in the other order than they were read
C7_Witness ==
  /\ runState = "done"
  /\ \E i \in Decoded, j \in Decoded :
       /\ i < j /\ GetOrPut(i) /\ GetOrPut(j) /\ Answered(i) /\ Answered(j)
       /\ \E ki \in Responses(i), kj \in Responses(j) : kj < ki

\* C8: draining order. Once the reader has stopped no request is read; Run
\* goes on to wait for the uploads only when every task has finished, and
\* logs the counters only when, after that, no upload is pending.
C8_Draining ==
  [][/\ runState \notin {"start", "serving"} => reqs' = reqs
     /\ runState' = "waitUploads" => Unfinished' = {}
     /\ runState' = "done" => (Unfinished' = {} /\ Uploading' = {})]_vars

\* a session with a served get and an upload has come to its end
C8_Witness ==
  /\ runState = "done"
  /\ \E i \in Decoded : IsCmd(i, CmdPut) /\ uploads[i] \in {"ok", "failed"}
  /\ \E i \in Decoded : IsCmd(i, CmdGet) /\ Finished(i)

\* C9: unknown command. When the session has ended, every request with a
\* command other than get, put and close has a response with its ID and a
\* non-empty error.
C9_UnknownCommand ==
  runState = "done" =>
    \A i \in Decoded :
      IsCmd(i, CmdOther) => \E k \in Responses(i) : out[k].Err # ErrNone

\* C10: framing failure. A put with BodySize n > 0 whose body does not decode
\* to n bytes ends the session: it is the last request read, it has no task
\* and no response, and nothing is written after it.
BadFraming(i) ==
  /\ IsCmd(i, CmdPut) /\ reqs[i].BodySize > 0
  /\ reqs[i].Body = NoFrame \/ Len(reqs[i].Body) # reqs[i].BodySize
C10_FramingFatal ==
  [][\A i \in Decoded :
       BadFraming(i) =>
         /\ runState = "fatal" /\ i = Len(reqs) /\ ~Dispatched(i) /\ Responses(i) = {}
         /\ UNCHANGED vars]_vars

\* the session was ended while an earlier request was still being served
C10_Witness ==
  /\ runState = "fatal"
  /\ BadFraming(Len(reqs))
  /\ \E j \in Decoded : Dispatched(j) /\ ~Finished(j)
  /\ \E j \in Decoded : Finished(j) /\ Answered(j)

\* the response handlePut builds when savefile has returned the path
PutSaved(i) ==
  [NewResponse(i) EXCEPT !.DiskPath = ObjectPath(HexEncode(reqs[i].ObjectID)),
                         !.Size = reqs[i].BodySize]

\* C11: the response to a put depends on the local write alone. A put that
\* has returned carries either the path and size of the local save and no
\* error, or the error of the local save and no upload; whatever its upload
\* does (pending, done or failed) the response has no error, and what is
\* written to the output is that response.
C11_PutResponseLocal ==
  \A i \in Decoded :
    (IsCmd(i, CmdPut) /\ Returned(i)) =>
      /\ tasks[i].res.Err \in {ErrNone, ErrSave}
      /\ tasks[i].res.Err = ErrNone => tasks[i].res = PutSaved(i)
      /\ tasks[i].res.Err = ErrSave =>
           (tasks[i].res = [NewResponse(i) EXCEPT !.Err = ErrSave] /\ uploads[i] = "none")
      /\ uploads[i] # "none" => tasks[i].res.Err = ErrNone
      /\ \A k \in Responses(i) : out[k] = tasks[i].res

\* one put was answered without an error although its upload failed, another
\* was answered while its upload had not finished
C11_Witness ==
  \E i \in Decoded, j \in Decoded :
    /\ IsCmd(i, CmdPut) /\ Answered(i) /\ uploads[i] = "failed"
    /\ IsCmd(j, CmdPut) /\ Answered(j) /\ uploads[j] = "scheduled"
    /\ \A k \in Responses(i) \cup Responses(j) : out[k].Err = ErrNone /\ out[k].DiskPath # NoPath

\* C12: a failure of the remote get is collapsed into a miss. A get that
\* found no local entry and whose remote get failed answers with miss set and
\* with no error.
C12_RemoteErrorIsMiss ==
  \A i \in Decoded :
    (IsCmd(i, CmdGet) /\ Returned(i) /\ tasks[i].rget = "error") =>
      tasks[i].res.Miss /\ tasks[i].res.Err = ErrNone

\* C13: handshake first. Nothing is read or written before the handshake;
\* from then on the first value of the output is the handshake, which lists
\* get, put and close, and no later value of the output lists any command.
C13_HandshakeFirst ==
  /\ runState = "start" => (out = << >> /\ reqs = << >>)
  /\ runState # "start" =>
       /\ Len(out) >= 1
       /\ out[1].KnownCommands = <<CmdGet, CmdPut, CmdClose>>
       /\ out[1].ID = 0 /\ out[1].Err = ErrNone
  /\ \A k \in 2..Len(out) : out[k].KnownCommands = << >>

\* two requests were read and answered after the handshake
C13_Witness ==
  /\ Len(out) >= 3 /\ out[1] = Handshake
  /\ Len(reqs) >= 2 /\ Answered(1) /\ Answered(2)

\* the tasks inside the section that encodes and flushes the response
Writers == { i \in Decoded : tasks[i].pc = "write" }

\* C15: single writer. At most one task is between Lock and Unlock, and it
\* holds the lock; after the handshake every change of the output adds the
\* one whole response of the task that holds the lock, which then leaves the
\* section.
C15_SingleWriter ==
  /\ [](Cardinality(Writers) <= 1 /\ \A i \in Writers : wmu = i)
  /\ [][(out' # out /\ out # << >>) =>
          \E i \in Writers :
            /\ wmu = i
            /\ out' = Append(out, tasks[i].res)
            /\ Writers' = {} /\ wmu' = 0]_vars

\* one task is in the section while another has its response ready
C15_Witness ==
  \E i \in Decoded, j \in Decoded :
    /\ i # j /\ tasks[i].pc = "write" /\ wmu = i
    /\ tasks[j].pc = "lock" /\ Dispatched(j)
    /\ Len(out) >= 1

\* the session is content-addressed: all saves under one objectID declare the
\* same size
ContentAddressed ==
  \A k1 \in Decoded, k2 \in Decoded :
    (Saves(k1) /\ Saves(k2) /\ tasks[k1].so = tasks[k2].so) =>
      tasks[k1].ssize = tasks[k2].ssize

\* C14: payload before index. In a content-addressed session every index
\* entry that exists names an objectID whose payload file exists under its
\* final name with the number of bytes the entry records, at every moment.
C14_PayloadBeforeIndex ==
  ContentAddressed =>
    \A a \in ActionNames :
      index[a].exists =>
        /\ payload[index[a].o].kind = "regular"
        /\ Len(payload[index[a].o].data) = index[a].n

\* task k is the only save of the session under its objectID
OnlySaveOf(k) ==
  \A k2 \in Decoded : (Saves(k2) /\ tasks[k2].so = tasks[k].so) => k2 = k

\* C16: size mismatch. A save whose body yields another number of bytes
\* than the declared size ends with an error, and leaves neither an index
\* entry for its objectID nor a payload of the wrong length under the final
\* name.
C16_SizeMismatch ==
  \A k \in Decoded :
    (/\ Saves(k) /\ Returned(k) /\ OnlySaveOf(k)
     /\ tasks[k].rget # "readfail"
     /\ Len(tasks[k].sbody) # tasks[k].ssize) =>
      /\ tasks[k].res.Err = ErrSave
      /\ \A a \in ActionNames : ~(index[a].exists /\ index[a].o = tasks[k].so)
      /\ payload[tasks[k].so].kind = "absent"

\* the step of savefile that opens the final name with O_CREATE|O_TRUNC
TruncatesInPlace(i, o) ==
  /\ i \in Decoded /\ tasks[i].pc = "saveStart" /\ tasks[i].ssize = 0
  /\ tasks[i].so = o /\ tasks'[i].pc = "indexRename"

\* C17: zero-size put. The save of an empty payload goes through a temporary
\* file and a rename: no step of it rewrites in place a payload that exists
\* under its final name with content.
C17_ZeroSizeAtomic ==
  [][\A o \in ObjectNames :
       (payload[o].kind = "regular" /\ payload[o].data # << >>) =>
         ~\E i \in 1..MaxRequests : TruncatesInPlace(i, o) /\ payload'[o] # payload[o]]_vars

\* the failure the handler of request i met itself
Raised(i) ==
  CASE ~IsCmd(i, CmdGet) -> ErrNone
    [] tasks[i].rget = "error" -> ErrRemote
    [] tasks[i].rget = "invalid" /\ tasks[i].so = EmptyName -> ErrInvalidOutputID
    [] tasks[i].rget \in {"invalid", "readfail"} /\ Returned(i) -> ErrSave
    [] OTHER -> ErrNone

\* C18: per-request error isolation. The step in which a request's handler
\* fails changes that request's task only: no other task, no response already
\* written, and the reader goes on as before. The error of a response is the
\* failure its own handler met, and every written response is the one its
\* own task built.
C18_ErrorIsolation ==
  /\ [](\A i \in Decoded : Returned(i) =>
         /\ tasks[i].res.Err = Raised(i)
         /\ \A k \in Responses(i) : out[k] = tasks[i].res)
  /\ [][\A i \in Decoded :
          (tasks[i].res.Err = ErrNone /\ tasks'[i].res.Err # ErrNone) =>
            /\ \A j \in Decoded \ {i} : tasks'[j] = tasks[j]
            /\ runState' = runState /\ reqs' = reqs /\ out' = out /\ wmu' = wmu]_vars

\* a get failed on the remote store while another get was asking it; that
\* one was then served, and a request read after the failure was answered too
C18_Witness ==
  \E i \in Decoded, j \in Decoded, k \in Decoded :
    /\ IsCmd(i, CmdGet) /\ Answered(i) /\ tasks[i].res.Err = ErrRemote
    /\ IsCmd(j, CmdGet) /\ Answered(j) /\ i \notin tasks[j].after
    /\ IsHit(tasks[j].res) /\ tasks[j].rget = "valid"
    /\ IsCmd(k, CmdGet) /\ i \in tasks[k].after /\ Answered(k)
    /\ tasks[k].res.Err = ErrNone

\* the uploads that were pending when the context of the tasks was cancelled
\* and still are
PendingAfterCancel == IF CtxDone THEN Uploading ELSE {}

\* C19: uploads escape cancellation. The step that cancels the context of
\* the tasks (wg.Wait returning) changes no upload; an upload that is pending
\* under the cancelled context can still end without an error, as well as
\* with one; and Run ends only when no upload is pending.
C19_UploadsEscape ==
  /\ [](\A i \in PendingAfterCancel :
          /\ ENABLED UploadExists(i)
          /\ ENABLED UploadWrite(i))
  /\ [](runState = "done" => Uploading = {})
  /\ [][(~CtxDone /\ CtxDone') => uploads' = uploads]_vars

\* the context of the tasks is cancelled, one upload has ended well and
\* another is still pending
C19_Witness ==
  /\ CtxDone /\ runState = "waitUploads"
  /\ \E i \in Decoded, j \in Decoded :
       /\ i \in PendingAfterCancel
       /\ IsCmd(j, CmdPut) /\ uploads[j] = "ok"

\* get i, which found a local index entry, ends its stat of the payload path
StatEnds(i) ==
  /\ i \in Decoded /\ tasks[i].pc = "statOutput" /\ tasks[i].rget = ""
  /\ tasks'[i].pc # "statOutput"

\* C20: local integrity check on get. A get that finds the index entry of
\* its action goes on to read it and, when it is trusted, to stat the payload
\* path it names. If nothing is under that path the get answers a miss with
\* no error; if something other than a regular file is there it answers the
\* error "not a regular file" and no disk path; a regular file is served.
C20_LocalIntegrity ==
  [][\A i \in Decoded :
       /\ (tasks[i].pc = "statAction" /\ tasks'[i].pc # "statAction"
            /\ index[tasks[i].sa].exists) => tasks'[i].pc = "readAction"
       /\ (tasks[i].pc = "readAction" /\ tasks'[i].pc # "readAction"
            /\ IndexTrusted(index[tasks[i].sa])) =>
             /\ tasks'[i].pc = "statOutput"
             /\ tasks'[i].outputPath = ObjectPath(index[tasks[i].sa].o)
       /\ StatEnds(i) =>
             LET f == payload[tasks[i].outputPath.id]
                 res == tasks'[i].res IN
               /\ f.kind = "absent" =>
                    (res.Miss /\ res.Err = ErrNone /\ res.DiskPath = NoPath)
               /\ f.kind \notin {"absent", "regular"} =>
                    (res.Err = ErrNotRegular /\ res.DiskPath = NoPath)
               /\ f.kind = "regular" =>
                    (IsHit(res) /\ res.DiskPath = tasks[i].outputPath)]_vars

\* a get whose index entry names a directory was answered with the error
C20_Witness ==
  \E i \in Decoded :
    /\ IsCmd(i, CmdGet) /\ Answered(i) /\ tasks[i].rget = ""
    /\ index[tasks[i].sa].exists
    /\ tasks[i].outputPath # NoPath
    /\ payload[tasks[i].outputPath.id] = DirFile
    /\ \A k \in Responses(i) : out[k].Err = ErrNotRegular /\ out[k].DiskPath = NoPath

\* get i leaves the step at pc
Leaves(i, pc) == tasks[i].pc = pc /\ tasks'[i].pc # pc

\* C22: untrusted index entry. The local lookup of a get fails whenever the
\* index entry is absent (the get turns to the remote store), cannot be read,
\* is not JSON or holds an OutputID that is not hex (the get answers a miss
\* with no path and counts no local hit); every payload path a get builds
\* comes from an OutputID that decoded as hex.
C22_UntrustedIndex ==
  /\ [](\A i \in Decoded :
          (IsCmd(i, CmdGet) /\ tasks[i].outputPath # NoPath) =>
            HexValid(tasks[i].outputPath.id))
  /\ [][\A i \in Decoded :
          /\ (Leaves(i, "statAction") /\ ~index[tasks[i].sa].exists) =>
               tasks'[i].pc = "remoteGet"
          /\ (Leaves(i, "readAction") /\ ~IndexTrusted(index[tasks[i].sa])) =>
               /\ tasks'[i].pc = "lock"
               /\ tasks'[i].res.Miss /\ tasks'[i].res.DiskPath = NoPath
               /\ tasks'[i].outputPath = NoPath
               /\ counters'.hits_local = counters.hits_local]_vars

\* a get was answered with a miss because the index entry of its action
\* holds an OutputID that is not hex
C22_Witness ==
  \E i \in Decoded :
    /\ IsCmd(i, CmdGet) /\ Answered(i) /\ tasks[i].rget = ""
    /\ index[tasks[i].sa] = IndexEntry(BadName, MaxLen)
    /\ \A k \in Responses(i) : out[k].Miss /\ out[k].DiskPath = NoPath /\ out[k].Err = ErrNone

\* C23: invalid remote outputID. A get whose remote store answered an
\* outputID that is not hex ends with an error and without the miss flag,
\* and has saved nothing in the local store.
C23_InvalidRemoteOutputID ==
  \A i \in Decoded :
    (/\ IsCmd(i, CmdGet) /\ Returned(i)
     /\ tasks[i].rget = "invalid" /\ tasks[i].so = EmptyName) =>
      /\ tasks[i].res.Err = ErrInvalidOutputID
      /\ ~tasks[i].res.Miss
      /\ tasks[i].res.DiskPath = NoPath

\* C24: teed upload body. For every put that has scheduled an upload, the
\* body handed to the remote store is, byte for byte, what the put wrote to
\* its local payload file, which is the body of the request with the declared
\* length; the body of the request was read once, from start to end.
C24_TeedUploadBody ==
  \A i \in Decoded :
    (IsCmd(i, CmdPut) /\ uploads[i] # "none") =>
      /\ UploadBody(i) = TempData(tasks[i])
      /\ UploadBody(i) = reqs[i].Body
      /\ Len(UploadBody(i)) = reqs[i].BodySize
      /\ tasks[i].wrote = Len(reqs[i].Body)

\* the upload of a put with a body of the longest size has ended well, and
\* the payload file of the put holds the bytes that were uploaded
C24_Witness ==
  \E i \in Decoded :
    /\ IsCmd(i, CmdPut) /\ reqs[i].BodySize = MaxLen /\ uploads[i] = "ok"
    /\ UploadBody(i) # << >>
    /\ payload[tasks[i].so] = RegularFile(UploadBody(i))

\* the gets that handleRequest has handled
GetsHandled == { i \in Decoded : IsCmd(i, CmdGet) /\ Returned(i) }

\* C26: get outcome counters are exclusive. When the session has ended, the
\* local hits, remote hits and misses add up to the number of gets handled.
C26_CountersExclusive ==
  runState = "done" =>
    counters.hits_local + counters.hits_remote + counters.miss
      = Cardinality(GetsHandled)

\* the response of get i says neither miss nor error
PlainHit(res) == ~res.Miss /\ res.Err = ErrNone

\* C21: hit responses describe the local file. A get returns without miss
\* and without error only from the stat of its payload path, when a regular
\* file is there; the response then carries that path, in the cache
\* directory, with the size and the modification time the file has at that
\* moment, whatever the index entry or the remote store recorded; and that
\* response is the one written.
C21_HitDescribesLocalFile ==
  /\ [](\A i \in Decoded :
          (IsCmd(i, CmdGet) /\ Returned(i) /\ PlainHit(tasks[i].res)) =>
            /\ tasks[i].res.DiskPath = tasks[i].outputPath
            /\ tasks[i].res.DiskPath.k = "o"
            /\ \A k \in Responses(i) : out[k] = tasks[i].res)
  /\ [][\A i \in Decoded :
          (/\ IsCmd(i, CmdGet) /\ ~Returned(i)
           /\ tasks'[i].pc = "lock" /\ PlainHit(tasks'[i].res)) =>
            LET f == payload[tasks[i].outputPath.id] IN
              /\ tasks[i].pc = "statOutput"
              /\ f.kind = "regular"
              /\ tasks'[i].res.DiskPath = ObjectPath(tasks[i].outputPath.id)
              /\ tasks'[i].res.Size = Len(f.data)
              /\ tasks'[i].res.TimeNanos = f.mtime]_vars

\* a get was answered with the size and the time of a file written at the
\* last tick, while the index entry of its action records another size
C21_Witness ==
  \E i \in Decoded :
    /\ IsCmd(i, CmdGet) /\ Answered(i) /\ IsHit(tasks[i].res)
    /\ tasks[i].res.TimeNanos = MaxClock
    /\ payload[tasks[i].res.DiskPath.id] = Stamped(RegularFile(<< >>), MaxClock)
    /\ tasks[i].res.Size = 0
    /\ index[tasks[i].sa].exists /\ index[tasks[i].sa].n # tasks[i].res.Size

\* the calls of Put that have returned nil
PutsSucceeded == { c \in 1..Len(calls) : calls[c].pc = "returned" /\ calls[c].err = ErrNone }

\* every Put so far for the action of call c carries the object of call c
SamePair(c) ==
  \A d \in 1..Len(calls) :
    calls[d].actionID = calls[c].actionID => calls[d].outputID = calls[c].outputID

\* C25: remote put is idempotent. No step of a put rewrites an object the
\* bucket already holds, and after any interleaving of puts of one
\* (actionID, objectID) pair, once a put has returned without error the bucket
\* holds the mapping of the action to that object, as the first completed
\* write stored it (generation 1).
C25_RemotePutIdempotent ==
  /\ [](\A c \in PutsSucceeded :
          SamePair(c) =>
            /\ bucket[calls[c].actionID].exists
            /\ bucket[calls[c].actionID].outputID = calls[c].outputID
            /\ bucket[calls[c].actionID].gen = 1)
  /\ [][\A a \in ActionNames : bucket[a].exists => bucket'[a] = bucket[a]]_vars
====
